---- MODULE Spec2Model ----
(***************************************************************************)
(* Pulse timing of src/src/pin_pulser.rs: the software timed pulser        *)
(* (TimerBasedPinPulser) and the hardware PWM pulser (HardwarePinPulser),  *)
(* together with the register blocks they drive (GPIO, PWM, clock, time).  *)
(* Time is counted in nanoseconds; get_time() reads it in microseconds.    *)
(* Pin masks are sets of pin numbers: gpio_bits!(18) is {18}.              *)
(* Rust's 0-based bitplane b indexes the 1-based sequences at b + 1.       *)
(***************************************************************************)
EXTENDS Integers, Sequences, FiniteSets, TLC

VARIABLES
    strategy,        \* which pulser is constructed: "timer" or "hardware"
    table,           \* the timing table handed to new()
    pins,            \* the pin mask handed to new(), kept in self.pins
    pc,              \* position of the calling thread
    sleep_hints_ns,  \* TimerBasedPinPulser.sleep_hints_ns
    sleep_hints_us,  \* HardwarePinPulser.sleep_hints_us
    pulse_periods,   \* HardwarePinPulser.pulse_periods
    current_pulse,   \* HardwarePinPulser.current_pulse: <<>> is None, <<p>> is Some(p)
    fifo,            \* PWM FIFO contents
    pwm_enabled,     \* PWM output enabled
    pwm_range,       \* PWM period register
    pwm_divider,     \* PWM clock divider
    out_end,         \* time at which the entry the PWM is playing ends
    gpio_low,        \* pins currently driven low (rest level is high)
    gpio_fn,         \* alternate function selected at construction
    now,             \* time in nanoseconds
    sleep_deadline,  \* end of the sleep in progress
    ops,             \* register operations of the current (or last) call, in order
    last_call,       \* "none", "new", "send" or "wait"
    last_bitplane,   \* bitplane of the most recent send_pulse
    calls,           \* number of send_pulse / wait_pulse_finished calls made
    sends_run,       \* length of the latest run of consecutive send_pulse calls
    send_at,         \* time at which the most recent send_pulse was called
    stamp_at,        \* get_time() value stored by the most recent send_pulse
    reset_at,        \* time of the reset_pwm of the last wait (-1: none since send)
    clr_at,          \* time of the last write_clr_bits
    set_at,          \* time of the last write_set_bits
    slept_short,     \* the last sleep_at_most returned before its deadline
    spun             \* the FIFO polling loop of the current wait yielded

pulserVars == <<strategy, table, pins, sleep_hints_ns, sleep_hints_us, pulse_periods>>
pwmVars == <<fifo, pwm_enabled, pwm_range, pwm_divider, out_end>>
gpioVars == <<gpio_low, gpio_fn>>
timeVars == <<now, sleep_deadline>>
callVars == <<last_call, last_bitplane, calls, sends_run, send_at>>
obsVars == <<stamp_at, reset_at, clr_at, set_at, slept_short, spun>>
vars == <<pulserVars, current_pulse, pc, pwmVars, gpioVars,
          timeVars, ops, callVars, obsVars>>

----------------------------------------------------------------------------
(* Constants of the source *)

PWM_BASE_TIME_NS == 2
EMPIRICAL_NANOSLEEP_OVERHEAD_US == 12
MINIMUM_NANOSLEEP_TIME_US == 5
SplitThreshold == 16
Fragments == 8
NsPerUs == 1000

(* Bounds of the model *)

MaxCalls == 3
MaxOvershoot == 100
MaxScale == 3

(* Timing tables handed to new(): non-decreasing durations in nanoseconds.  *)
(* <<1000, 7500, 8000>> gives the periods 15 and 16, <<1000, 11500>> a      *)
(* period that is no multiple of 8, <<0, 1000>> a zero base.                *)
Tables == { <<1000, 2000, 4000>>, <<1000, 7500, 8000>>, <<1000, 11500>>,
            <<50000>>, <<0, 1000>> }

PinMasks == SUBSET {12, 18}

GpioBits(n) == {n}

Overshoots == {0, MaxOvershoot}

None == <<>>

Some(x) == <<x>>

----------------------------------------------------------------------------
(* Pure computations *)

\* t / 1000 of every table entry (both constructors)
SleepHints(t) == [i \in DOMAIN t |-> t[i] \div NsPerUs]

\* the division taken before the doubling
PulsePeriods_DivFirst(t) == [i \in DOMAIN t |-> 2 * (t[i] \div t[1])]

\* the ratio to the base without the doubling
PulsePeriods_NoDouble(t) == [i \in DOMAIN t |-> t[i] \div t[1]]

\* 2 * timing / time_base of every table entry
PulsePeriods(t) == [i \in DOMAIN t |-> (2 * t[i]) \div t[1]]

\* (time_base / 2) / PWM_BASE_TIME_NS
PwmDivider(time_base) == (time_base \div 2) \div PWM_BASE_TIME_NS

\* the period register left at the whole period in the split branch
PeriodRegister_Whole(p) == p

\* the value send_pulse writes to the period register
PeriodRegister(p) == IF p < SplitThreshold THEN p ELSE p \div Fragments

\* the split taken only above 16
PeriodEntries_SplitAbove(p) ==
    IF p <= SplitThreshold THEN <<p>> ELSE [i \in 1..Fragments |-> p \div Fragments]

\* the period entries send_pulse pushes, before the terminators
PeriodEntries(p) ==
    IF p < SplitThreshold THEN <<p>> ELSE [i \in 1..Fragments |-> p \div Fragments]

\* a single terminating zero
Terminators_One == <<0>>

\* the two push_fifo(0) after the period entries
Terminators == <<0, 0>>

\* a subtraction that wraps instead of saturating
SaturatingSub_Wrapping(a, b) == (a - b) % 65536

\* u64::saturating_sub
SaturatingSub(a, b) == IF a >= b THEN a - b ELSE 0

\* TimeRegisters::get_time: the monotonic counter in microseconds
GetTime == now \div NsPerUs

\* duration of one PWM clock tick
PwmTickNs == pwm_divider * PWM_BASE_TIME_NS

----------------------------------------------------------------------------
Init ==
    /\ strategy \in {"timer", "hardware"}
    /\ table \in Tables
    /\ pins \in PinMasks
    /\ pc = "new"
    /\ sleep_hints_ns = <<>>
    /\ sleep_hints_us = <<>>
    /\ pulse_periods = <<>>
    /\ current_pulse = None
    /\ fifo = <<>>
    /\ pwm_enabled = FALSE
    /\ pwm_range = 0
    /\ pwm_divider = 0
    /\ out_end = 0
    /\ gpio_low = {}
    /\ gpio_fn = <<>>
    /\ now = 0
    /\ sleep_deadline = 0
    /\ ops = <<>>
    /\ last_call = "none"
    /\ last_bitplane = 0
    /\ calls = 0
    /\ sends_run = 0
    /\ send_at = 0
    /\ stamp_at = 0
    /\ reset_at = -1
    /\ clr_at = -1
    /\ set_at = -1
    /\ slept_short = FALSE
    /\ spun = FALSE

----------------------------------------------------------------------------
(* Construction *)

\* TimerBasedPinPulser::new
TimerNew ==
    /\ pc = "new"
    /\ strategy = "timer"
    /\ sleep_hints_ns' = SleepHints(table)
    /\ pc' = "idle"
    /\ ops' = <<>>
    /\ last_call' = "new"
    /\ UNCHANGED <<strategy, table, pins, sleep_hints_us, pulse_periods, current_pulse,
                   pwmVars, gpioVars, timeVars, last_bitplane, calls,
                   sends_run, send_at, obsVars>>

\* the pin mask checked only after the PWM was reset and the divider set
HwNewBadPins_CheckedLate ==
    /\ pc = "new"
    /\ strategy = "hardware"
    /\ pins # GpioBits(18)
    /\ pins # GpioBits(12)
    /\ fifo' = <<>>
    /\ pwm_enabled' = FALSE
    /\ out_end' = now
    /\ pwm_divider' = PwmDivider(table[1])
    /\ pc' = "panicked"
    /\ ops' = << <<"reset_pwm", 0>>, <<"init_pwm_divider", PwmDivider(table[1])>> >>
    /\ last_call' = "new"
    /\ UNCHANGED <<pulserVars, current_pulse, pwm_range, gpioVars,
                   timeVars, last_bitplane, calls, sends_run, send_at, obsVars>>

\* HardwarePinPulser::new with a pin mask that is neither GPIO 18 nor GPIO 12:
\* unreachable!() before any register is touched
HwNewBadPins ==
    /\ pc = "new"
    /\ strategy = "hardware"
    /\ pins # GpioBits(18)
    /\ pins # GpioBits(12)
    /\ pc' = "panicked"
    /\ ops' = <<>>
    /\ last_call' = "new"
    /\ UNCHANGED <<pulserVars, current_pulse, pwmVars, gpioVars,
                   timeVars, last_bitplane, calls, sends_run, send_at, obsVars>>

\* HardwarePinPulser::new with a supported pin mask: select_function, reset_pwm,
\* init_pwm_divider, then the pulse periods (a division by a zero base panics there)
HwNew ==
    /\ pc = "new"
    /\ strategy = "hardware"
    /\ pins \in {GpioBits(18), GpioBits(12)}
    /\ LET time_base == table[1]
           sel == IF pins = GpioBits(18) THEN <<18, "Alt5">> ELSE <<12, "Alt0">>
       IN  /\ gpio_fn' = sel
           /\ fifo' = <<>>
           /\ pwm_enabled' = FALSE
           /\ out_end' = now
           /\ pwm_divider' = PwmDivider(time_base)
           /\ ops' = << <<"select_function", sel[1]>>, <<"reset_pwm", 0>>,
                        <<"init_pwm_divider", PwmDivider(time_base)>> >>
           /\ IF time_base = 0
              THEN /\ pc' = "panicked"
                   /\ UNCHANGED <<sleep_hints_us, pulse_periods>>
              ELSE /\ pc' = "idle"
                   /\ sleep_hints_us' = SleepHints(table)
                   /\ pulse_periods' = PulsePeriods(table)
    /\ last_call' = "new"
    /\ UNCHANGED <<strategy, table, pins, sleep_hints_ns, current_pulse, pwm_range,
                   gpio_low, timeVars, last_bitplane, calls, sends_run,
                   send_at, obsVars>>

----------------------------------------------------------------------------
(* TimerBasedPinPulser *)

\* send_pulse with a bitplane outside the table: the index panics first
TimerSendPulseOutOfRange(b) ==
    /\ pc = "idle"
    /\ strategy = "timer"
    /\ calls < MaxCalls
    /\ b >= Len(sleep_hints_ns)
    /\ pc' = "panicked"
    /\ ops' = <<>>
    /\ last_call' = "send"
    /\ last_bitplane' = b
    /\ calls' = calls + 1
    /\ UNCHANGED <<pulserVars, current_pulse, pwmVars, gpioVars, timeVars,
                   sends_run, send_at, obsVars>>

\* send_pulse: read the delay, write_clr_bits, enter sleep
TimerSendPulse(b) ==
    /\ pc = "idle"
    /\ strategy = "timer"
    /\ calls < MaxCalls
    /\ b < Len(sleep_hints_ns)
    /\ LET us == sleep_hints_ns[b + 1]
       IN  sleep_deadline' = now + us      \* sleep(Duration::from_nanos(us))
    /\ gpio_low' = gpio_low \cup pins
    /\ clr_at' = now
    /\ ops' = << <<"write_clr_bits", pins>> >>
    /\ pc' = "t_sleep"
    /\ last_call' = "send"
    /\ last_bitplane' = b
    /\ calls' = calls + 1
    /\ sends_run' = IF last_call = "send" THEN sends_run + 1 ELSE 1
    /\ send_at' = now
    /\ UNCHANGED <<pulserVars, current_pulse, pwmVars, gpio_fn, now,
                   stamp_at, reset_at, set_at, slept_short, spun>>

\* std::thread::sleep returns: no sooner than asked, possibly later
TimerSleepReturn ==
    /\ pc = "t_sleep"
    /\ \E j \in Overshoots : now' = sleep_deadline + j
    /\ ops' = Append(ops, <<"sleep", sleep_deadline - clr_at>>)
    /\ pc' = "t_set"
    /\ UNCHANGED <<pulserVars, current_pulse, pwmVars, gpioVars,
                   sleep_deadline, callVars, obsVars>>

\* send_pulse returning without driving the pins high again
TimerSetBits_Forgotten ==
    /\ pc = "t_set"
    /\ pc' = "idle"
    /\ UNCHANGED <<pulserVars, current_pulse, pwmVars, gpioVars, timeVars, ops,
                   callVars, obsVars>>

\* write_set_bits and return
TimerSetBits ==
    /\ pc = "t_set"
    /\ gpio_low' = gpio_low \ pins
    /\ set_at' = now
    /\ ops' = Append(ops, <<"write_set_bits", pins>>)
    /\ pc' = "idle"
    /\ UNCHANGED <<pulserVars, current_pulse, pwmVars, gpio_fn,
                   timeVars, callVars, stamp_at, reset_at, clr_at, slept_short, spun>>

\* a timer wait that enables the PWM
TimerWaitPulseFinished_TouchesPwm ==
    /\ pc = "idle"
    /\ strategy = "timer"
    /\ calls < MaxCalls
    /\ pwm_enabled' = TRUE
    /\ ops' = <<>>
    /\ last_call' = "wait"
    /\ calls' = calls + 1
    /\ UNCHANGED <<pulserVars, current_pulse, pc, fifo, pwm_range, pwm_divider, out_end,
                   gpioVars, timeVars, last_bitplane, sends_run, send_at, obsVars>>

\* wait_pulse_finished: empty body
TimerWaitPulseFinished ==
    /\ pc = "idle"
    /\ strategy = "timer"
    /\ calls < MaxCalls
    /\ ops' = <<>>
    /\ last_call' = "wait"
    /\ calls' = calls + 1
    /\ UNCHANGED <<pulserVars, current_pulse, pc, pwmVars, gpioVars, timeVars,
                   last_bitplane, sends_run, send_at, obsVars>>

----------------------------------------------------------------------------
(* HardwarePinPulser *)

\* the index checked only after the period register was set and a zero pushed
HwSendPulseOutOfRange_CheckedLate(b) ==
    /\ pc = "idle"
    /\ strategy = "hardware"
    /\ calls < MaxCalls
    /\ b >= Len(pulse_periods)
    /\ pwm_range' = 0
    /\ fifo' = Append(fifo, 0)
    /\ pc' = "panicked"
    /\ ops' = << <<"set_pwm_pulse_period", 0>>, <<"push_fifo", 0>> >>
    /\ last_call' = "send"
    /\ last_bitplane' = b
    /\ calls' = calls + 1
    /\ UNCHANGED <<pulserVars, current_pulse, pwm_enabled, pwm_divider, out_end,
                   gpioVars, timeVars, sends_run, send_at, obsVars>>

\* send_pulse with a bitplane outside the table: pulse_periods[bitplane] panics first
HwSendPulseOutOfRange(b) ==
    /\ pc = "idle"
    /\ strategy = "hardware"
    /\ calls < MaxCalls
    /\ b >= Len(pulse_periods)
    /\ pc' = "panicked"
    /\ ops' = <<>>
    /\ last_call' = "send"
    /\ last_bitplane' = b
    /\ calls' = calls + 1
    /\ UNCHANGED <<pulserVars, current_pulse, pwmVars, gpioVars, timeVars,
                   sends_run, send_at, obsVars>>

\* a record already in flight is kept instead of overwritten
NewPulse_KeepFirst(b) ==
    IF current_pulse # None THEN current_pulse[1]
    ELSE [start_time |-> GetTime, sleep_hint_us |-> sleep_hints_us[b + 1]]

\* the record send_pulse stores in current_pulse
NewPulse(b) == [start_time |-> GetTime, sleep_hint_us |-> sleep_hints_us[b + 1]]

\* everything one send_pulse pushes, in order
FifoLoad(p) == PeriodEntries(p) \o Terminators

\* enable_pwm issued before the FIFO is loaded
SendOps_EnableFirst(p) ==
    << <<"set_pwm_pulse_period", PeriodRegister(p)>>, <<"enable_pwm", 0>> >>
    \o [i \in DOMAIN FifoLoad(p) |-> <<"push_fifo", FifoLoad(p)[i]>>]
    \o << <<"get_time", GetTime>> >>

\* the register operations of one send_pulse, in program order
SendOps(p) ==
    << <<"set_pwm_pulse_period", PeriodRegister(p)>> >>
    \o [i \in DOMAIN FifoLoad(p) |-> <<"push_fifo", FifoLoad(p)[i]>>]
    \o << <<"get_time", GetTime>>, <<"enable_pwm", 0>> >>

\* send_pulse that forgets enable_pwm
HwSendPulse_NoEnable(b) ==
    /\ pc = "idle"
    /\ strategy = "hardware"
    /\ calls < MaxCalls
    /\ b < Len(pulse_periods)
    /\ LET p == pulse_periods[b + 1]
       IN  /\ pwm_range' = PeriodRegister(p)
           /\ fifo' = fifo \o FifoLoad(p)
           /\ ops' = SendOps(p)
    /\ current_pulse' = Some(NewPulse(b))
    /\ stamp_at' = GetTime
    /\ last_call' = "send"
    /\ last_bitplane' = b
    /\ calls' = calls + 1
    /\ sends_run' = IF last_call = "send" THEN sends_run + 1 ELSE 1
    /\ send_at' = now
    /\ reset_at' = -1
    /\ slept_short' = FALSE
    /\ spun' = FALSE
    /\ UNCHANGED <<pulserVars, pc, pwm_enabled, pwm_divider, out_end, gpioVars, timeVars, clr_at,
                   set_at>>

\* send_pulse: set the period register, load the FIFO, store the in-flight
\* record, enable_pwm. Nothing in it blocks.
HwSendPulse(b) ==
    /\ pc = "idle"
    /\ strategy = "hardware"
    /\ calls < MaxCalls
    /\ b < Len(pulse_periods)
    /\ LET p == pulse_periods[b + 1]
       IN  /\ pwm_range' = PeriodRegister(p)
           /\ fifo' = fifo \o FifoLoad(p)
           /\ ops' = SendOps(p)
    /\ current_pulse' = Some(NewPulse(b))
    /\ stamp_at' = GetTime
    /\ pwm_enabled' = TRUE
    /\ last_call' = "send"
    /\ last_bitplane' = b
    /\ calls' = calls + 1
    /\ sends_run' = IF last_call = "send" THEN sends_run + 1 ELSE 1
    /\ send_at' = now
    /\ reset_at' = -1
    /\ slept_short' = FALSE
    /\ spun' = FALSE
    /\ UNCHANGED <<pulserVars, pc, pwm_divider, out_end, gpioVars, timeVars, clr_at,
                   set_at>>

\* no early return: the wait goes on to sleep, poll and reset
HwWaitNoPulse_FallThrough ==
    /\ pc = "idle"
    /\ strategy = "hardware"
    /\ calls < MaxCalls
    /\ current_pulse = None
    /\ sleep_deadline' = now
    /\ ops' = << <<"get_time", GetTime>>, <<"sleep_at_most", 0>> >>
    /\ pc' = "w_sleep"
    /\ last_call' = "wait"
    /\ calls' = calls + 1
    /\ UNCHANGED <<pulserVars, current_pulse, pwmVars, gpioVars, now, last_bitplane,
                   sends_run, send_at, obsVars>>

\* wait_pulse_finished with no record in flight: early return
HwWaitNoPulse ==
    /\ pc = "idle"
    /\ strategy = "hardware"
    /\ calls < MaxCalls
    /\ current_pulse = None
    /\ ops' = <<>>
    /\ last_call' = "wait"
    /\ calls' = calls + 1
    /\ UNCHANGED <<pulserVars, current_pulse, pc, pwmVars, gpioVars, timeVars,
                   last_bitplane, sends_run, send_at, obsVars>>

\* wait_pulse_finished: take the record, compute the remaining time, enter sleep_at_most
HwWaitPulseFinished ==
    /\ pc = "idle"
    /\ strategy = "hardware"
    /\ calls < MaxCalls
    /\ current_pulse # None
    /\ LET pulse == current_pulse[1]
           already_elapsed_us == GetTime - pulse.start_time
           remaining_time_us == SaturatingSub(pulse.sleep_hint_us, already_elapsed_us)
       IN  /\ sleep_deadline' = now + remaining_time_us * NsPerUs
           /\ ops' = << <<"get_time", GetTime>>, <<"sleep_at_most", remaining_time_us>> >>
    /\ current_pulse' = None
    /\ pc' = "w_sleep"
    /\ last_call' = "wait"
    /\ calls' = calls + 1
    /\ slept_short' = FALSE
    /\ spun' = FALSE
    /\ UNCHANGED <<pulserVars, pwmVars, gpioVars, now, last_bitplane, sends_run,
                   send_at, stamp_at, reset_at, clr_at, set_at>>

\* sleep_at_most returns: at its deadline or sooner
HwWaitSleepReturn ==
    /\ pc = "w_sleep"
    /\ slept_short' = (now < sleep_deadline)
    /\ pc' = "w_poll"
    /\ UNCHANGED <<pulserVars, current_pulse, pwmVars, gpioVars,
                   timeVars, ops, callVars, stamp_at, reset_at, clr_at, set_at,
                   spun>>

\* fifo_empty() as the polling loop reads it
FifoEmpty == fifo = <<>>

\* while !fifo_empty() { yield_now() }: one reading that finds entries left
HwWaitSpin ==
    /\ pc = "w_poll"
    /\ ~FifoEmpty
    /\ spun' = TRUE
    /\ ops' = IF ops[Len(ops)][1] = "fifo_empty" THEN ops
              ELSE Append(ops, <<"fifo_empty", 0>>)
    /\ UNCHANGED <<pulserVars, current_pulse, pc, pwmVars, gpioVars,
                   timeVars, callVars, stamp_at, reset_at, clr_at, set_at, slept_short>>

\* the polling loop left without looking at the FIFO
HwWaitDrained_NoCheck ==
    /\ pc = "w_poll"
    /\ ops' = IF ops[Len(ops)][1] = "fifo_empty" THEN ops
              ELSE Append(ops, <<"fifo_empty", 0>>)
    /\ pc' = "w_reset"
    /\ UNCHANGED <<pulserVars, current_pulse, pwmVars, gpioVars,
                   timeVars, callVars, obsVars>>

\* the reading that ends the polling loop
HwWaitDrained ==
    /\ pc = "w_poll"
    /\ FifoEmpty
    /\ ops' = IF ops[Len(ops)][1] = "fifo_empty" THEN ops
              ELSE Append(ops, <<"fifo_empty", 0>>)
    /\ pc' = "w_reset"
    /\ UNCHANGED <<pulserVars, current_pulse, pwmVars, gpioVars,
                   timeVars, callVars, obsVars>>

\* the wait returning without reset_pwm
HwWaitReset_Skipped ==
    /\ pc = "w_reset"
    /\ reset_at' = now
    /\ pc' = "idle"
    /\ UNCHANGED <<pulserVars, current_pulse, pwmVars, gpioVars, timeVars, ops,
                   callVars, stamp_at, clr_at, set_at, slept_short, spun>>

\* reset_pwm and return
HwWaitReset ==
    /\ pc = "w_reset"
    /\ fifo' = <<>>
    /\ pwm_enabled' = FALSE
    /\ out_end' = now
    /\ reset_at' = now
    /\ ops' = Append(ops, <<"reset_pwm", 0>>)
    /\ pc' = "idle"
    /\ UNCHANGED <<pulserVars, current_pulse, pwm_range, pwm_divider,
                   gpioVars, timeVars, callVars, stamp_at, clr_at, set_at, slept_short, spun>>

----------------------------------------------------------------------------
(* The PWM peripheral and the passage of time *)

Max(a, b) == IF a >= b THEN a ELSE b

\* the instant the PWM takes its next FIFO entry: when the entry it plays ends
NextPop == Max(now, out_end)

\* the PWM has an entry to take and sleep_at_most (which never sleeps past its
\* deadline) is not due first
PopDue ==
    /\ pwm_enabled
    /\ fifo # <<>>
    /\ pc = "w_sleep" => NextPop <= sleep_deadline

\* Time passes to the end of the entry the PWM plays and the PWM takes the next
\* one from the FIFO; an entry lasts the period register's number of clock ticks.
PwmDrain ==
    /\ PopDue
    /\ now' = NextPop
    /\ fifo' = Tail(fifo)
    /\ out_end' = NextPop + pwm_range * PwmTickNs
    /\ UNCHANGED <<pulserVars, current_pulse, pc, pwm_enabled, pwm_range, pwm_divider,
                   gpioVars, sleep_deadline, ops, callVars, obsVars>>

\* Time passes to the deadline of the sleep_at_most in progress, when the PWM
\* takes no entry before it.
Advance ==
    /\ pc = "w_sleep"
    /\ now < sleep_deadline
    /\ ~(pwm_enabled /\ fifo # <<>> /\ NextPop < sleep_deadline)
    /\ now' = sleep_deadline
    /\ UNCHANGED <<pulserVars, current_pulse, pc, pwmVars, gpioVars,
                   sleep_deadline, ops, callVars, obsVars>>

----------------------------------------------------------------------------
Bitplanes == 0..Len(table)

Next ==
    \/ TimerNew
    \/ HwNewBadPins
    \/ HwNew
    \/ \E b \in Bitplanes : TimerSendPulseOutOfRange(b)
    \/ \E b \in Bitplanes : TimerSendPulse(b)
    \/ TimerSleepReturn
    \/ TimerSetBits
    \/ TimerWaitPulseFinished
    \/ \E b \in Bitplanes : HwSendPulseOutOfRange(b)
    \/ \E b \in Bitplanes : HwSendPulse(b)
    \/ HwWaitNoPulse
    \/ HwWaitPulseFinished
    \/ HwWaitSleepReturn
    \/ HwWaitSpin
    \/ HwWaitDrained
    \/ HwWaitReset
    \/ PwmDrain
    \/ Advance

Spec == Init /\ [][Next]_vars

----------------------------------------------------------------------------
(* Observations used by the properties *)

\* the values pushed to the FIFO by the call whose operations ops holds
Pushed ==
    LET P == SelectSeq(ops, LAMBDA o : o[1] = "push_fifo")
    IN  [i \in DOMAIN P |-> P[i][2]]

\* a hardware send_pulse has returned and no other call has started
HwSendReturned == strategy = "hardware" /\ pc = "idle" /\ last_call = "send"

\* the period of the bitplane of the most recent send_pulse
LastPeriod == pulse_periods[last_bitplane + 1]

\* the table entry of the bitplane of the most recent send_pulse
LastDuration == table[last_bitplane + 1]

\* this step is a call of wait_pulse_finished
WaitCalled == calls' = calls + 1 /\ last_call' = "wait"

\* the pulser is idle and no send_pulse was issued since construction or the last wait
NoSendSinceWait == pc = "idle" /\ last_call \in {"new", "wait"}

----------------------------------------------------------------------------
(* Properties *)

\* C1: hardware strategy, send_pulse followed by wait_pulse_finished: the
\* reset_pwm of the wait comes no earlier than the table duration of the
\* bitplane after the send_pulse.
C1_ResetNotBeforeDuration ==
    (strategy = "hardware" /\ pc = "idle" /\ last_call = "wait"
        /\ sends_run = 1 /\ reset_at >= 0)
    => reset_at - send_at >= LastDuration

\* C2: timer strategy: the pins stay low, from write_clr_bits to
\* write_set_bits, for no less than the table duration of the bitplane.
C2_LowNotShorterThanDuration ==
    (strategy = "timer" /\ pc = "idle" /\ last_call = "send")
    => set_at - clr_at >= LastDuration

\* C3: a wait_pulse_finished called when no send_pulse was issued since
\* construction or since the last wait returns at once: no register operation
\* (no sleep, no FIFO poll, no reset), no panic, pulser and registers unchanged.
C3_WaitWithoutSendIsNoop ==
    [][(NoSendSinceWait /\ WaitCalled)
        => (/\ pc' = "idle"
            /\ ops' = <<>>
            /\ UNCHANGED <<pulserVars, current_pulse, pwmVars, gpioVars, timeVars>>)]_vars

\* C3 witness: send, wait, then a second wait that did nothing (hardware)
C3_Witness ==
    /\ strategy = "hardware"
    /\ pc = "idle"
    /\ last_call = "wait"
    /\ calls = 3
    /\ sends_run = 1
    /\ reset_at >= 0
    /\ ops = <<>>

\* C4: the entries a hardware send_pulse pushes end with exactly two zeros:
\* at least three entries, the last two zero, every earlier one non-zero.
C4_TwoZeroTerminators ==
    HwSendReturned
    => (/\ Len(Pushed) >= 3
        /\ Pushed[Len(Pushed)] = 0
        /\ Pushed[Len(Pushed) - 1] = 0
        /\ \A i \in 1..(Len(Pushed) - 2) : Pushed[i] # 0)

\* C4 witness: the single-entry branch, period 15
C4_Witness == HwSendReturned /\ LastPeriod = 15 /\ Pushed = <<15, 0, 0>>

\* C5: a hardware send_pulse pushes 3 entries when the period is below 16 and
\* 10 entries when it is 16 or more.
C5_EntryCount ==
    HwSendReturned => Len(Pushed) = (IF LastPeriod < 16 THEN 3 ELSE 10)

\* C5 witness: period 16 takes the 8-fragment path
C5_Witness == HwSendReturned /\ LastPeriod = 16 /\ Len(Pushed) = 10

\* this step is the return of a hardware wait_pulse_finished
WaitReturns ==
    \/ last_call = "wait" /\ pc # "idle" /\ pc' = "idle"
    \/ WaitCalled /\ pc' = "idle"

\* this step performs reset_pwm inside a wait_pulse_finished
WaitResets ==
    /\ last_call = "wait"
    /\ Len(ops') = Len(ops) + 1
    /\ ops'[Len(ops')][1] = "reset_pwm"

\* C6: the reset_pwm of a wait, and the return of a wait, happen only with
\* the FIFO empty, whatever the sleep did and however many pulses were sent.
C6_ResetOnlyWhenFifoEmpty ==
    [][(strategy = "hardware" /\ (WaitReturns \/ WaitResets)) => fifo = <<>>]_vars

\* C6 witness: two send_pulse calls, then a wait whose sleep returned early
\* and whose polling loop had to spin, now about to reset
C6_Witness ==
    /\ strategy = "hardware"
    /\ pc = "w_reset"
    /\ sends_run = 2
    /\ slept_short
    /\ spun

\* the wait in progress (or the last one) found a record and asked for a sleep
WaitSlept == strategy = "hardware" /\ last_call = "wait" /\ ops # <<>>

\* its reading of the clock minus the timestamp of the most recent send_pulse
WaitElapsed == ops[1][2] - stamp_at

\* the argument it gave to sleep_at_most
WaitRequest == ops[2][2]

\* the hint of the most recent send_pulse: table[bitplane] / 1000
LastHint == LastDuration \div 1000

\* C7: the sleep request is hint - elapsed when elapsed <= hint and 0 when
\* elapsed exceeds the hint; it never exceeds the hint.
C7_RemainingNeverUnderflows ==
    WaitSlept
    => (/\ WaitElapsed >= 0
        /\ WaitRequest = (IF WaitElapsed <= LastHint THEN LastHint - WaitElapsed ELSE 0)
        /\ WaitRequest <= LastHint)

\* C7 witness: the elapsed time already exceeds the hint and the request is 0
C7_Witness == WaitSlept /\ WaitElapsed > LastHint /\ WaitRequest = 0

\* a hardware wait_pulse_finished is in progress
InWait == pc \in {"w_sleep", "w_poll", "w_reset"}

\* C8: every hardware wait_pulse_finished returns, and its polling loop runs
\* with PWM output enabled.
C8_WaitReturns ==
    /\ [](pc = "w_poll" => pwm_enabled)
    /\ InWait ~> (pc = "idle")

\* C8 witness: a wait that had to spin on the FIFO has returned
C8_Witness ==
    /\ strategy = "hardware"
    /\ pc = "idle"
    /\ last_call = "wait"
    /\ spun
    /\ reset_at >= 0

\* C9: at most one in-flight record; none after construction, none during or
\* after a wait, and after a send_pulse the record of that send_pulse.
C9_InFlightRecord ==
    strategy = "hardware"
    => (/\ Len(current_pulse) <= 1
        /\ (pc = "idle" /\ last_call = "new") => current_pulse = None
        /\ last_call = "wait" => current_pulse = None
        /\ (pc = "idle" /\ last_call = "send")
            => current_pulse = << [start_time |-> send_at \div 1000,
                                   sleep_hint_us |-> LastHint] >>)

\* C9 witness: a second send_pulse, later than the first and for another
\* bitplane, has overwritten the record
C9_Witness ==
    /\ HwSendReturned
    /\ sends_run = 2
    /\ send_at >= 1000
    /\ last_bitplane = 1
    /\ current_pulse # None

\* the table with every duration multiplied by k
Scaled(t, k) == [i \in DOMAIN t |-> k * t[i]]

\* C10: every pulse period is floor(2 * table[i] / table[0]); the period of
\* bitplane 0 is 2; scaling the whole table leaves the periods unchanged.
C10_PulsePeriods ==
    (strategy = "hardware" /\ pc \notin {"new", "panicked"})
    => (/\ DOMAIN pulse_periods = DOMAIN table
        /\ \A i \in DOMAIN table :
              /\ pulse_periods[i] * table[1] <= 2 * table[i]
              /\ 2 * table[i] < (pulse_periods[i] + 1) * table[1]
        /\ pulse_periods[1] = 2
        /\ \A k \in 1..MaxScale : PulsePeriods(Scaled(table, k)) = pulse_periods)

\* C10 witness: a table whose second ratio is not whole
C10_Witness ==
    /\ strategy = "hardware"
    /\ pc = "idle"
    /\ table = <<1000, 7500, 8000>>
    /\ pulse_periods = <<2, 15, 16>>

----------------------------------------------------------------------------
(* The same system with the scheduling the wait relies on: the PWM keeps
   taking entries, time passes, sleep_at_most returns and the calling thread
   keeps running its wait. *)
LiveSpec ==
    /\ Spec
    /\ WF_vars(PwmDrain)
    /\ WF_vars(Advance)
    /\ WF_vars(HwWaitSleepReturn)
    /\ WF_vars(HwWaitDrained)
    /\ WF_vars(HwWaitReset)

----------------------------------------------------------------------------
\* the pulser was built by HardwarePinPulser::new from the table of the
\* worked example, <<1000, 2000, 4000>>
ExampleBuilt ==
    /\ strategy = "hardware"
    /\ pc \notin {"new", "panicked"}
    /\ table = <<1000, 2000, 4000>>

\* C11 as stated: the example table gives the periods <<1000, 2000, 4000>> and
\* send_pulse(0) pushes the fragment 125 eight times and then two zeros.
C11_ExampleAsStated ==
    ExampleBuilt
    => (/\ pulse_periods = <<1000, 2000, 4000>>
        /\ (HwSendReturned /\ last_bitplane = 0)
            => Pushed = <<125, 125, 125, 125, 125, 125, 125, 125, 0, 0>>)

\* C11 amended: the example table gives the periods <<2, 4, 8>> and
\* send_pulse(0) takes the single-entry path: period register 2, then the
\* pushes 2, 0, 0.
C11_ExamplePeriods ==
    ExampleBuilt
    => (/\ pulse_periods = <<2, 4, 8>>
        /\ (HwSendReturned /\ last_bitplane = 0)
            => (/\ ops[1] = <<"set_pwm_pulse_period", 2>>
                /\ Pushed = <<2, 0, 0>>))

\* C11 witness: send_pulse(0) has returned on the pulser of the example
C11_Witness == ExampleBuilt /\ HwSendReturned /\ last_bitplane = 0 /\ Len(Pushed) = 3

----------------------------------------------------------------------------
\* the names of the register operations in ops, in order
OpNames == [i \in DOMAIN ops |-> ops[i][1]]

\* HardwarePinPulser::new has run (and nothing since)
HwNewRan == strategy = "hardware" /\ last_call = "new"

\* C12: new() yields a pulser only for the mask of GPIO 18 alone (Alt5 on pin
\* 18) or of GPIO 12 alone (Alt0 on pin 12), after select_function, reset_pwm,
\* init_pwm_divider in that order, once each. Any other mask panics with no
\* register touched. send_pulse and wait_pulse_finished never call
\* init_pwm_divider (nor select_function).
C12_Construction ==
    /\ (HwNewRan /\ pc = "idle")
        => (/\ pins \in {{18}, {12}}
            /\ gpio_fn = (IF pins = {18} THEN <<18, "Alt5">> ELSE <<12, "Alt0">>)
            /\ OpNames = <<"select_function", "reset_pwm", "init_pwm_divider">>
            /\ ops[1][2] = gpio_fn[1])
    /\ (HwNewRan /\ pins \in {{18}, {12}} /\ table[1] # 0) => pc = "idle"
    /\ (HwNewRan /\ pins \notin {{18}, {12}})
        => (/\ pc = "panicked"
            /\ ops = <<>>
            /\ gpio_fn = <<>>
            /\ pwm_divider = 0
            /\ pulse_periods = <<>>)
    /\ (strategy = "hardware" /\ last_call \in {"send", "wait"})
        => \A i \in DOMAIN ops :
              ops[i][1] \notin {"init_pwm_divider", "select_function"}

\* C12 witness: the mask of both pins together was refused
C12_Witness == HwNewRan /\ pins = {12, 18} /\ pc = "panicked"

\* this step is a call of send_pulse with a bitplane outside the table
SendOutOfRange ==
    /\ pc = "idle"
    /\ calls' = calls + 1
    /\ last_call' = "send"
    /\ last_bitplane' >= Len(table)

\* C13: a send_pulse with a bitplane outside the table panics, in both
\* strategies, before any effect: no register operation, pins, PWM, time and
\* in-flight record as they were.
C13_OutOfRangeFaultsFirst ==
    [][SendOutOfRange
        => (/\ pc' = "panicked"
            /\ ops' = <<>>
            /\ UNCHANGED <<pulserVars, current_pulse, pwmVars, gpioVars, timeVars>>)]_vars

\* C13 witness: the hardware pulser panicked on a send_pulse past the table
\* while a record was in flight, and the record is still there
C13_Witness ==
    /\ strategy = "hardware"
    /\ pc = "panicked"
    /\ last_call = "send"
    /\ last_bitplane = Len(table)
    /\ current_pulse # None

----------------------------------------------------------------------------
\* a timer send_pulse has returned and no other call has started
TimerSendReturned == strategy = "timer" /\ pc = "idle" /\ last_call = "send"

\* the sleeps the call whose operations ops holds has asked for
Sleeps == SelectSeq(ops, LAMBDA o : o[1] = "sleep")

\* the table duration of the last send_pulse in whole microseconds
LastDurationUs == LastDuration \div NsPerUs

\* the duration above which a coarse sleep is worth its overhead
SleepThresholdUs == EMPIRICAL_NANOSLEEP_OVERHEAD_US + MINIMUM_NANOSLEEP_TIME_US

\* C14: the timer send_pulse waits in two phases: a coarse sleep of duration
\* minus overhead when the duration exceeds the threshold (none otherwise),
\* then a spin on the microsecond counter up to start + duration, and only
\* then drives the pins high.
C14_TwoPhaseWait ==
    TimerSendReturned
    => (/\ IF LastDurationUs > SleepThresholdUs
           THEN Sleeps = << <<"sleep",
                    (LastDurationUs - EMPIRICAL_NANOSLEEP_OVERHEAD_US) * NsPerUs>> >>
           ELSE Sleeps = <<>>
        /\ \E i \in DOMAIN ops : ops[i][1] = "get_time"
        /\ set_at >= clr_at + LastDuration)

\* C15: a timer send_pulse performs write_clr_bits(pins), the delay,
\* write_set_bits(pins), in that order and nothing else; the pins are low
\* during the delay and at rest whenever no send_pulse is running; a timer
\* wait_pulse_finished performs no register operation.
C15_TimerOrdering ==
    strategy = "timer"
    => (/\ TimerSendReturned
            => (/\ Len(ops) = 3
                /\ ops[1] = <<"write_clr_bits", pins>>
                /\ ops[2] = <<"sleep", sleep_hints_ns[last_bitplane + 1]>>
                /\ ops[3] = <<"write_set_bits", pins>>
                /\ clr_at <= set_at)
        /\ pc = "idle" => gpio_low = {}
        /\ pc \in {"t_sleep", "t_set"} => gpio_low = pins
        /\ last_call = "wait" => (ops = <<>> /\ pc = "idle"))

\* C15 witness: a pulse on both pins has completed
C15_Witness == TimerSendReturned /\ pins = {12, 18} /\ Len(ops) = 3 /\ set_at > clr_at

----------------------------------------------------------------------------
\* the positions in ops of the operations named n
Positions(n) == {i \in DOMAIN ops : ops[i][1] = n}

\* C16: in one hardware send_pulse the period register is set first, every
\* push (period entries and both zeros) comes after it and before enable_pwm,
\* enable_pwm is the last operation; nothing sleeps, polls the FIFO or resets
\* the PWM.
C16_SendOrdering ==
    HwSendReturned
    => (/\ Positions("set_pwm_pulse_period") = {1}
        /\ Positions("enable_pwm") = {Len(ops)}
        /\ Cardinality(Positions("push_fifo")) = Len(FifoLoad(LastPeriod))
        /\ \A i \in Positions("push_fifo") : 1 < i /\ i < Len(ops)
        /\ Positions("sleep_at_most") = {}
        /\ Positions("sleep") = {}
        /\ Positions("fifo_empty") = {}
        /\ Positions("reset_pwm") = {})

\* C16 witness: a send_pulse of the 8-fragment branch: 13 operations
C16_Witness == HwSendReturned /\ LastPeriod >= 16 /\ Len(ops) = 13

\* the non-zero entries pushed by the call whose operations ops holds
Fragment == SelectSeq(Pushed, LAMBDA v : v # 0)

\* C17: every non-zero entry pushed equals the period register of that
\* send_pulse; below 16 the one entry is the period; from 16 on there are
\* eight entries of floor(p / 8), each at least 2, totalling at most p and
\* more than p - 8.
C17_FragmentArithmetic ==
    HwSendReturned
    => LET p == LastPeriod
           reg == ops[1][2]
       IN  /\ \A i \in DOMAIN Fragment : Fragment[i] = reg
           /\ p < 16 => Fragment = <<p>>
           /\ p >= 16
               => (/\ Len(Fragment) = 8
                   /\ reg = p \div 8
                   /\ reg >= 2
                   /\ 8 * reg <= p
                   /\ 8 * reg > p - 8)

\* C17 witness: period 23, of which 16 cycles are loaded and 7 dropped
C17_Witness ==
    /\ HwSendReturned
    /\ LastPeriod = 23
    /\ Fragment = <<2, 2, 2, 2, 2, 2, 2, 2>>

\* this step is a call of send_pulse (in range) on the hardware pulser
HwSendCalled ==
    /\ strategy = "hardware"
    /\ pc = "idle"
    /\ calls' = calls + 1
    /\ last_call' = "send"
    /\ pc' = "idle"

\* C18: a send_pulse that follows construction or a wait starts with the FIFO
\* empty and the PWM disabled; while no two send_pulse calls follow each other
\* the FIFO never holds more than the 10 entries of one pulse.
C18_IdleBetweenPulses ==
    /\ [][(HwSendCalled /\ last_call \in {"new", "wait"})
            => (fifo = <<>> /\ ~pwm_enabled)]_vars
    /\ [](sends_run <= 1 => Len(fifo) <= 10)

\* C18 witness: send, wait, and a second send whose 10 entries are alone in
\* the FIFO
C18_Witness ==
    /\ HwSendReturned
    /\ calls = 3
    /\ sends_run = 1
    /\ send_at > 0
    /\ Len(fifo) = 10

\* a pulser exists: new() has returned
Built == pc \notin {"new", "panicked"}

\* C19: send_pulse and wait_pulse_finished leave the table, the hints, the
\* periods and the pin mask as new() made them; the hardware pulser never
\* writes GPIO; the timer pulser never touches the PWM or the in-flight record.
C19_Frame ==
    [][Built
        => (/\ UNCHANGED pulserVars
            /\ strategy = "hardware" => UNCHANGED gpioVars
            /\ strategy = "timer" => UNCHANGED <<pwmVars, current_pulse>>)]_vars

\* C19 witness: a timer pulser after a pulse and a wait
C19_Witness ==
    /\ strategy = "timer"
    /\ pc = "idle"
    /\ last_call = "wait"
    /\ set_at >= 0
    /\ sleep_hints_ns = SleepHints(table)

====
